---- MODULE Spec2Model ----
(***************************************************************************)
(* Signcryption ciphertexts and decryption keys of blsful                  *)
(* (src/sign_crypt_ciphertext.rs).                                         *)
(*                                                                         *)
(* The file under study dispatches on the signature scheme of a ciphertext *)
(* and delegates to the primitives of the BlsSignCrypt / BlsSignatureCore  *)
(* traits.  Those primitives live elsewhere in the crate; they are         *)
(* modelled here from their documented contract over a small group:        *)
(*   - public-key group elements are written by their discrete logarithm   *)
(*     modulo Q (the generator is 1),                                      *)
(*   - signature group elements are written k * H(u, v, dst) with the      *)
(*     hash-to-curve H an ideal (collision free) hash, kept symbolic,      *)
(*   - the payload v is the XOR of the message with a key stream derived   *)
(*     from the shared point, followed by one authentication byte.         *)
(***************************************************************************)
EXTENDS Integers, Sequences, FiniteSets, TLC

\* ------------------------------------------------------------------ bounds
\* Longest message sealed.
MaxLen == 1
\* Participants holding a share of the secret key (n).
NumParticipants == 3
\* Shares needed to rebuild the key (t).
Threshold == 2
\* Longest share list handed to from_shares.
MaxShares == 3
\* Largest scheme tag tried on the wire (the defined ones are 0..2).
MaxTag == 3
\* Concurrent callers.
NumThreads == 2

\* Order of the scalar field of the model group (a prime).
Q == 5

\* Secret keys and sealing randomness the environment draws.
SecretScalars == {2, 3}
Nonces == {1, 3}
PolyCoefs == {1, 4}
\* The bytes messages are made of ("h", "i").
MsgBytes == {104, 105}

\* ------------------------------------------------- SignatureSchemes, DSTs
SignatureSchemes == {"Basic", "MessageAugmentation", "ProofOfPossession"}

BlsSignatureBasic_DST == "BLS_SIG_BLS12381G1_XMD:SHA-256_SSWU_RO_NUL_"
BlsSignatureMessageAugmentation_DST == "BLS_SIG_BLS12381G1_XMD:SHA-256_SSWU_RO_AUG_"
BlsSignaturePop_SIG_DST == "BLS_SIG_BLS12381G1_XMD:SHA-256_SSWU_RO_POP_"
BlsSignaturePop_POP_DST == "BLS_POP_BLS12381G1_XMD:SHA-256_SSWU_RO_POP_"

\* ------------------------------------------------------ group arithmetic
Mod(x) == ((x % Q) + Q) % Q

Inverse(a) == CHOOSE x \in 1 .. (Q - 1) : Mod(a * x) = 1

RECURSIVE XorBits(_, _, _)
XorBits(a, b, n) ==
    IF n = 0 THEN 0
    ELSE (((a % 2) + (b % 2)) % 2) + 2 * XorBits(a \div 2, b \div 2, n - 1)

Xor8(a, b) == XorBits(a, b, 8)

\* Key stream byte i and authentication byte derived from a shared point.
KeyStream(point, i) == ((point * 37) + (i * 11) + 5) % 256
AuthByte(point) == ((point * 29) + 3) % 256

XorStream(bytes, point) ==
    [i \in 1 .. Len(bytes) |-> Xor8(bytes[i], KeyStream(point, i))]

\* Ideal hash to the signature group: H(u || v, dst).
HashToSignature(u, v, dst) == [u |-> u, v |-> v, dst |-> dst]

\* CtOption<Vec<u8>>
CtSome(bytes) == [is_some |-> TRUE, value |-> bytes]
CtNone == [is_some |-> FALSE, value |-> <<>>]

\* ----------------------------------------------- BlsSignCrypt primitives
\* seal(pk, message, dst) with randomness r: (u, v, w).
BlsSignCrypt_seal(pk, message, dst, r) ==
    LET u == Mod(r)
        point == Mod(r * pk)
        v == XorStream(message, point) \o <<AuthByte(point)>>
    IN  [u |-> u, v |-> v, w |-> [k |-> Mod(r), base |-> HashToSignature(u, v, dst)]]

\* valid(u, v, w, dst): e(u, H(u || v, dst)) = e(G, w).
BlsSignCrypt_valid(u, v, w, dst) ==
    /\ w.base = HashToSignature(u, v, dst)
    /\ w.k = u

\* decrypt(v, point, choice): the plaintext when choice is set and v is
\* bound to point, no value otherwise.
BlsSignCrypt_decrypt(v, point, choice) ==
    IF /\ choice
       /\ Len(v) >= 1
       /\ v[Len(v)] = AuthByte(point)
    THEN CtSome(XorStream(SubSeq(v, 1, Len(v) - 1), point))
    ELSE CtNone

\* unseal(u, v, w, sk, dst)
BlsSignCrypt_unseal(u, v, w, sk, dst) ==
    BlsSignCrypt_decrypt(v, Mod(u * sk), BlsSignCrypt_valid(u, v, w, dst))

\* ------------------------------------------- BlsSignatureCore combination
Ok(x) == [ok |-> TRUE, value |-> x, err |-> ""]
Err(e) == [ok |-> FALSE, value |-> <<>>, err |-> e]

HasDuplicateId(points) ==
    \E i, j \in 1 .. Len(points) : i # j /\ points[i].id = points[j].id

RECURSIVE LagrangeBasis(_, _, _)
\* prod over j # i of x_j / (x_j - x_i), the basis polynomial of i at zero.
LagrangeBasis(points, i, j) ==
    IF j = 0 THEN 1
    ELSE IF j = i THEN LagrangeBasis(points, i, j - 1)
    ELSE Mod(LagrangeBasis(points, i, j - 1)
             * points[j].id * Inverse(Mod(points[j].id - points[i].id)))

RECURSIVE Interpolate(_, _)
Interpolate(points, i) ==
    IF i = 0 THEN 0
    ELSE Mod(Interpolate(points, i - 1)
             + points[i].value * LagrangeBasis(points, i, Len(points)))

core_combine_public_key_shares(points) ==
    IF Len(points) < Threshold THEN Err("too few shares")
    ELSE IF HasDuplicateId(points) THEN Err("duplicate index")
    ELSE Ok(Interpolate(points, Len(points)))

\* ----------------------------------------------------- key-share set-up
RECURSIVE EvalPoly(_, _, _)
\* secret + c1 x + c2 x^2 + ... (Horner, from the highest coefficient).
EvalPoly(coefs, x, j) ==
    IF j > Len(coefs) THEN 0
    ELSE Mod(coefs[j] + x * EvalPoly(coefs, x, j + 1))

SecretKeyShare(secret, id) ==
    [id |-> id, value |-> EvalPoly(<<secret.sk>> \o secret.coefs, id, 1)]

\* The decryption share of participant id for ciphertext ct: u * share.
SignDecryptionShare(secret, ct, id) ==
    << [id |-> id, value |-> Mod(ct.u * SecretKeyShare(secret, id).value)] >>

\* ================================================ sign_crypt_ciphertext.rs
\* A SecretKey, a SignCryptDecryptionKey and a SignDecryptionShare are tuple
\* structs: field .0 is element 1 of a one-element tuple.
SecretKey(sk) == <<sk>>
SignCryptDecryptionKey(point) == <<point>>

\* One call of an external primitive, as the handlers below make it.
CallUnseal(u, v, w, sk, dst) ==
    [fn |-> "unseal", u |-> u, v |-> v, w |-> w, sk |-> sk, dst |-> dst]
CallValid(u, v, w, dst) ==
    [fn |-> "valid", u |-> u, v |-> v, w |-> w, dst |-> dst]
CallDecrypt(v, point, choice) ==
    [fn |-> "decrypt", v |-> v, point |-> point, choice |-> choice]
CallCombine(points) ==
    [fn |-> "core_combine_public_key_shares", points |-> points]

\* What a handler gives back: its return value and the primitive calls it
\* made, in order.
Returned(ret, calls) == [ret |-> ret, calls |-> calls]

\* The match with the proof-of-possession arm taking the proof DST.
SignCryptCiphertext_decrypt_dst_pop(scheme) ==
    CASE scheme = "Basic" -> BlsSignatureBasic_DST
      [] scheme = "MessageAugmentation" -> BlsSignatureMessageAugmentation_DST
      [] scheme = "ProofOfPossession" -> BlsSignaturePop_POP_DST

\* SignCryptCiphertext::decrypt, the match on self.scheme.
SignCryptCiphertext_decrypt_dst(scheme) ==
    CASE scheme = "Basic" -> BlsSignatureBasic_DST
      [] scheme = "MessageAugmentation" -> BlsSignatureMessageAugmentation_DST
      [] scheme = "ProofOfPossession" -> BlsSignaturePop_SIG_DST

\* decrypt that skips the validity check of unseal.
SignCryptCiphertext_decrypt_unchecked(self, sk) ==
    LET dst == SignCryptCiphertext_decrypt_dst(self.scheme)
    IN  Returned(BlsSignCrypt_decrypt(self.v, Mod(self.u * sk[1]), TRUE),
                 <<CallUnseal(self.u, self.v, self.w, sk[1], dst)>>)

\* SignCryptCiphertext::decrypt(&self, sk)
SignCryptCiphertext_decrypt(self, sk) ==
    LET dst == SignCryptCiphertext_decrypt_dst(self.scheme)
    IN  Returned(BlsSignCrypt_unseal(self.u, self.v, self.w, sk[1], dst),
                 <<CallUnseal(self.u, self.v, self.w, sk[1], dst)>>)

\* is_valid with every arm passing the Basic DST.
SignCryptCiphertext_is_valid_basic(self) ==
    Returned(BlsSignCrypt_valid(self.u, self.v, self.w, BlsSignatureBasic_DST),
             <<CallValid(self.u, self.v, self.w, BlsSignatureBasic_DST)>>)

\* SignCryptCiphertext::is_valid(&self): one primitive call per match arm.
SignCryptCiphertext_is_valid(self) ==
    CASE self.scheme = "Basic" ->
           Returned(BlsSignCrypt_valid(self.u, self.v, self.w, BlsSignatureBasic_DST),
                    <<CallValid(self.u, self.v, self.w, BlsSignatureBasic_DST)>>)
      [] self.scheme = "MessageAugmentation" ->
           Returned(BlsSignCrypt_valid(self.u, self.v, self.w,
                                       BlsSignatureMessageAugmentation_DST),
                    <<CallValid(self.u, self.v, self.w,
                                BlsSignatureMessageAugmentation_DST)>>)
      [] self.scheme = "ProofOfPossession" ->
           Returned(BlsSignCrypt_valid(self.u, self.v, self.w, BlsSignaturePop_SIG_DST),
                    <<CallValid(self.u, self.v, self.w, BlsSignaturePop_SIG_DST)>>)

\* The match with the proof-of-possession arm taking the proof DST.
SignCryptDecryptionKey_decrypt_dst_pop(scheme) ==
    CASE scheme = "Basic" -> BlsSignatureBasic_DST
      [] scheme = "MessageAugmentation" -> BlsSignatureMessageAugmentation_DST
      [] scheme = "ProofOfPossession" -> BlsSignaturePop_POP_DST

\* SignCryptDecryptionKey::decrypt, the match on ciphertext.scheme.
SignCryptDecryptionKey_decrypt_dst(scheme) ==
    CASE scheme = "Basic" -> BlsSignatureBasic_DST
      [] scheme = "MessageAugmentation" -> BlsSignatureMessageAugmentation_DST
      [] scheme = "ProofOfPossession" -> BlsSignaturePop_SIG_DST

\* decrypt that drops the validity value and passes a set choice.
SignCryptDecryptionKey_decrypt_unchecked(self, ciphertext) ==
    LET dst == SignCryptDecryptionKey_decrypt_dst(ciphertext.scheme)
        choice == BlsSignCrypt_valid(ciphertext.u, ciphertext.v, ciphertext.w, dst)
    IN  Returned(BlsSignCrypt_decrypt(ciphertext.v, self[1], TRUE),
                 <<CallValid(ciphertext.u, ciphertext.v, ciphertext.w, dst),
                   CallDecrypt(ciphertext.v, self[1], TRUE)>>)

\* decrypt that returns early on an invalid ciphertext.
SignCryptDecryptionKey_decrypt_early(self, ciphertext) ==
    LET dst == SignCryptDecryptionKey_decrypt_dst(ciphertext.scheme)
        choice == BlsSignCrypt_valid(ciphertext.u, ciphertext.v, ciphertext.w, dst)
    IN  IF ~choice
        THEN Returned(CtNone,
                      <<CallValid(ciphertext.u, ciphertext.v, ciphertext.w, dst)>>)
        ELSE Returned(BlsSignCrypt_decrypt(ciphertext.v, self[1], choice),
                      <<CallValid(ciphertext.u, ciphertext.v, ciphertext.w, dst),
                        CallDecrypt(ciphertext.v, self[1], choice)>>)

\* SignCryptDecryptionKey::decrypt(&self, ciphertext)
SignCryptDecryptionKey_decrypt(self, ciphertext) ==
    LET dst == SignCryptDecryptionKey_decrypt_dst(ciphertext.scheme)
        choice == BlsSignCrypt_valid(ciphertext.u, ciphertext.v, ciphertext.w, dst)
    IN  Returned(BlsSignCrypt_decrypt(ciphertext.v, self[1], choice),
                 <<CallValid(ciphertext.u, ciphertext.v, ciphertext.w, dst),
                   CallDecrypt(ciphertext.v, self[1], choice)>>)

\* from_shares that skips the first share.
SignCryptDecryptionKey_from_shares_skip(shares) ==
    LET points == [i \in 1 .. (Len(shares) - 1) |-> shares[i + 1][1]]
        combined == core_combine_public_key_shares(points)
    IN  Returned(IF combined.ok THEN Ok(SignCryptDecryptionKey(combined.value))
                 ELSE combined,
                 <<CallCombine(points)>>)

\* from_shares that falls back to the default key when combination fails.
SignCryptDecryptionKey_from_shares_default(shares) ==
    LET points == [i \in 1 .. Len(shares) |-> shares[i][1]]
        combined == core_combine_public_key_shares(points)
    IN  Returned(IF combined.ok THEN Ok(SignCryptDecryptionKey(combined.value))
                 ELSE Ok(SignCryptDecryptionKey(0)),
                 <<CallCombine(points)>>)

\* SignCryptDecryptionKey::from_shares(shares)
SignCryptDecryptionKey_from_shares(shares) ==
    LET points == [i \in 1 .. Len(shares) |-> shares[i][1]]
        combined == core_combine_public_key_shares(points)
    IN  Returned(IF combined.ok THEN Ok(SignCryptDecryptionKey(combined.value))
                 ELSE combined,
                 <<CallCombine(points)>>)

\* ------------------------------------------------------------------ serde
\* The codecs of the fields (traits::public_key, traits::signature and the
\* derive on SignatureSchemes): a point is a fixed-size big-endian byte
\* string, a scheme its variant index.
PublicKeySerialize(u) == <<u \div 256, u % 256>>
PublicKeyDeserialize(bytes) ==
    IF Len(bytes) = 2 /\ (bytes[1] * 256) + bytes[2] < Q
    THEN Ok((bytes[1] * 256) + bytes[2])
    ELSE Err("invalid point")

SignatureSerialize(w) == <<w.k \div 256, w.k % 256, w.base.u, w.base.v, w.base.dst>>
SignatureDeserialize(bytes) ==
    IF Len(bytes) = 5 /\ (bytes[1] * 256) + bytes[2] < Q
    THEN Ok([k |-> (bytes[1] * 256) + bytes[2],
             base |-> HashToSignature(bytes[3], bytes[4], bytes[5])])
    ELSE Err("invalid point")

SchemeSerialize(scheme) ==
    CASE scheme = "Basic" -> 0
      [] scheme = "MessageAugmentation" -> 1
      [] scheme = "ProofOfPossession" -> 2
SchemeDeserialize(tag) ==
    CASE tag = 0 -> Ok("Basic")
      [] tag = 1 -> Ok("MessageAugmentation")
      [] tag = 2 -> Ok("ProofOfPossession")
      [] OTHER -> Err("unknown variant")

\* The derive with the scheme field skipped.
SignCryptCiphertext_serialize_skip(self) ==
    << <<"u", PublicKeySerialize(self.u)>>,
       <<"v", self.v>>,
       <<"w", SignatureSerialize(self.w)>> >>

\* #[derive(Serialize)] on SignCryptCiphertext: the fields in declaration
\* order, u and w through their serialize_with.
SignCryptCiphertext_serialize(self) ==
    << <<"u", PublicKeySerialize(self.u)>>,
       <<"v", self.v>>,
       <<"w", SignatureSerialize(self.w)>>,
       <<"scheme", SchemeSerialize(self.scheme)>> >>

\* #[derive(Deserialize)] on SignCryptCiphertext.
SignCryptCiphertext_deserialize(wire) ==
    IF \/ Len(wire) # 4
       \/ <<wire[1][1], wire[2][1], wire[3][1], wire[4][1]>> # <<"u", "v", "w", "scheme">>
    THEN Err("missing field")
    ELSE LET u == PublicKeyDeserialize(wire[1][2])
             w == SignatureDeserialize(wire[3][2])
             scheme == SchemeDeserialize(wire[4][2])
         IN  IF ~u.ok THEN u
             ELSE IF ~w.ok THEN w
             ELSE IF ~scheme.ok THEN scheme
             ELSE Ok([u |-> u.value, v |-> wire[2][2], w |-> w.value,
                      scheme |-> scheme.value])

\* ============================================================ the machine
VARIABLES
    secret,      \* the recipient's secret key and the sharing polynomial
    plain,       \* what was sealed: message, scheme, nonce
    sealed,      \* the ciphertext as the sealer produced it
    ciphertext,  \* the ciphertext in the caller's hands (its fields are pub)
    dkey,        \* the decryption key in the caller's hands and where it came from
    last,        \* the last operation: its name, argument and what it returned
    threads      \* the concurrent callers: each one's call and position

vars == <<secret, plain, sealed, ciphertext, dkey, last, threads>>

Messages == UNION {[1 .. n -> MsgBytes] : n \in 0 .. MaxLen}
Threads == 1 .. NumThreads
Participants == 1 .. NumParticipants

\* The DST a sealer uses for a scheme (PublicKey::sign_crypt).
SchemeDst(scheme) ==
    CASE scheme = "Basic" -> BlsSignatureBasic_DST
      [] scheme = "MessageAugmentation" -> BlsSignatureMessageAugmentation_DST
      [] scheme = "ProofOfPossession" -> BlsSignaturePop_SIG_DST

\* PublicKey::sign_crypt(scheme, message): seal for the key's public point.
SignCrypt(sk, message, scheme, r) ==
    LET c == BlsSignCrypt_seal(Mod(sk), message, SchemeDst(scheme), r)
    IN  [u |-> c.u, v |-> c.v, w |-> c.w, scheme |-> scheme]

\* Share lists: participant indices in non-decreasing order, repeats allowed.
ShareIdLists ==
    {ids \in UNION {[1 .. n -> Participants] : n \in 0 .. MaxShares} :
        \A i \in 1 .. (Len(ids) - 1) : ids[i] <= ids[i + 1]}

SharesOf(ids) == [i \in 1 .. Len(ids) |-> SignDecryptionShare(secret, ciphertext, ids[i])]

\* The point the ciphertext was sealed to: u * sk.
BoundPoint == Mod(sealed.u * secret.sk)

Idle == [op |-> "idle", pc |-> "idle", arg |-> <<>>, dst |-> "", choice |-> FALSE,
         points |-> <<>>, ret |-> <<>>]

Op(name, arg, out) == [op |-> name, arg |-> arg, out |-> out]

Init ==
    \E sk \in SecretScalars, coefs \in [1 .. (Threshold - 1) -> PolyCoefs],
       m \in Messages, scheme \in SignatureSchemes, r \in Nonces :
        /\ secret = [sk |-> sk, coefs |-> coefs]
        /\ plain = [m |-> m, scheme |-> scheme, r |-> r]
        /\ sealed = SignCrypt(sk, m, scheme, r)
        /\ ciphertext = SignCrypt(sk, m, scheme, r)
        /\ dkey = [key |-> SignCryptDecryptionKey(0), from |-> "default"]
        /\ last = Op("sign_crypt", <<>>, Returned(<<>>, <<>>))
        /\ threads = [t \in Threads |-> Idle]

\* ---------------------------------------------------- the four operations
Decrypt ==
    \E sk \in 1 .. (Q - 1) :
        /\ last' = Op("decrypt", SecretKey(sk),
                      SignCryptCiphertext_decrypt(ciphertext, SecretKey(sk)))
        /\ UNCHANGED <<secret, plain, sealed, ciphertext, dkey, threads>>

IsValid ==
    /\ last' = Op("is_valid", <<>>, SignCryptCiphertext_is_valid(ciphertext))
    /\ UNCHANGED <<secret, plain, sealed, ciphertext, dkey, threads>>

KeyDecrypt ==
    /\ last' = Op("key_decrypt", dkey.key,
                  SignCryptDecryptionKey_decrypt(dkey.key, ciphertext))
    /\ UNCHANGED <<secret, plain, sealed, ciphertext, dkey, threads>>

FromShares ==
    \E ids \in ShareIdLists :
        LET out == SignCryptDecryptionKey_from_shares(SharesOf(ids))
        IN  /\ last' = Op("from_shares", ids, out)
            /\ dkey' = IF out.ret.ok THEN [key |-> out.ret.value, from |-> "shares"]
                       ELSE dkey
            /\ UNCHANGED <<secret, plain, sealed, ciphertext, threads>>

\* ------------------------------------------------------- the environment
\* A holder of the secret key (or of a wrong one) builds the key directly.
MakeKey ==
    \E point \in {BoundPoint, Mod(BoundPoint + 1)} :
        /\ dkey' = [key |-> SignCryptDecryptionKey(point), from |-> "direct"]
        /\ last' = Op("make_key", <<>>, Returned(<<>>, <<>>))
        /\ UNCHANGED <<secret, plain, sealed, ciphertext, threads>>

FlipByte(v, i) == [v EXCEPT ![i] = Xor8(v[i], 1)]

AlteredPayloads(v) ==
    {FlipByte(v, i) : i \in 1 .. Len(v)}
        \cup {SubSeq(v, 1, Len(v) - 1), v \o <<0>>}

\* The scheme tag is replaced after sealing.
SetScheme ==
    \E scheme \in SignatureSchemes \ {ciphertext.scheme} :
        /\ ciphertext = sealed
        /\ ciphertext' = [ciphertext EXCEPT !.scheme = scheme]
        /\ last' = Op("set_scheme", <<>>, Returned(<<>>, <<>>))
        /\ UNCHANGED <<secret, plain, sealed, dkey, threads>>

\* v is altered after sealing.
TamperV ==
    \E v \in AlteredPayloads(ciphertext.v) :
        /\ ciphertext = sealed
        /\ ciphertext' = [ciphertext EXCEPT !.v = v]
        /\ last' = Op("tamper_v", <<>>, Returned(<<>>, <<>>))
        /\ UNCHANGED <<secret, plain, sealed, dkey, threads>>

\* w is altered after sealing.
TamperW ==
    /\ ciphertext = sealed
    /\ ciphertext' = [ciphertext EXCEPT !.w.k = Mod(ciphertext.w.k + 1)]
    /\ last' = Op("tamper_w", <<>>, Returned(<<>>, <<>>))
    /\ UNCHANGED <<secret, plain, sealed, dkey, threads>>

\* The caller takes the sealed ciphertext again.
Restore ==
    /\ ciphertext # sealed
    /\ ciphertext' = sealed
    /\ last' = Op("restore", <<>>, Returned(<<>>, <<>>))
    /\ UNCHANGED <<secret, plain, sealed, dkey, threads>>

\* deserialize(serialize(ciphertext))
RoundTrip ==
    /\ last' = Op("round_trip", SignCryptCiphertext_serialize(ciphertext),
                  Returned(SignCryptCiphertext_deserialize(
                               SignCryptCiphertext_serialize(ciphertext)), <<>>))
    /\ UNCHANGED <<secret, plain, sealed, ciphertext, dkey, threads>>

\* A record arrives whose scheme tag is any number up to MaxTag.
DeserializeTag ==
    \E tag \in 0 .. MaxTag :
        LET wire == [SignCryptCiphertext_serialize(ciphertext)
                        EXCEPT ![4] = <<"scheme", tag>>]
        IN  /\ last' = Op("deserialize", wire,
                          Returned(SignCryptCiphertext_deserialize(wire), <<>>))
            /\ UNCHANGED <<secret, plain, sealed, ciphertext, dkey, threads>>

Next ==
    \/ Decrypt
    \/ IsValid
    \/ KeyDecrypt
    \/ MakeKey
    \/ SetScheme
    \/ TamperV
    \/ TamperW
    \/ Restore
    \/ RoundTrip
    \/ DeserializeTag

Spec == Init /\ [][Next]_vars

\* ------------------------------------------ threshold decryption, by shares
\* The same machine with the key rebuilt from decryption shares.
InitShares ==
    \E sk \in SecretScalars, coefs \in [1 .. (Threshold - 1) -> PolyCoefs],
       m \in [1 .. MaxLen -> MsgBytes], scheme \in SignatureSchemes :
        /\ secret = [sk |-> sk, coefs |-> coefs]
        /\ plain = [m |-> m, scheme |-> scheme, r |-> 3]
        /\ sealed = SignCrypt(sk, m, scheme, 3)
        /\ ciphertext = SignCrypt(sk, m, scheme, 3)
        /\ dkey = [key |-> SignCryptDecryptionKey(0), from |-> "default"]
        /\ last = Op("sign_crypt", <<>>, Returned(<<>>, <<>>))
        /\ threads = [t \in Threads |-> Idle]

NextShares ==
    \/ FromShares
    \/ KeyDecrypt
    \/ TamperW
    \/ Restore

SpecShares == InitShares /\ [][NextShares]_vars

\* --------------------------------------------------- concurrent callers
\* Each caller runs one of the four operations over the shared ciphertext,
\* key and shares, a step at a time: a step is the match on the scheme or
\* one call of a primitive.  Every operation borrows its inputs shared
\* (&self, &SecretKey, &[SignDecryptionShare]); the environment's writes
\* need the exclusive borrow, which no call in flight allows.
ConcShareLists == {<<1, 2>>, <<1, 1>>}

\* dst kept in one slot shared by the callers (the first caller's).
SharedDst(t) == threads[1].dst

\* The let-bound dst of a call in flight.
LocalDst(t) == threads[t].dst

InFlight == \E t \in Threads : threads[t].pc # "idle"

InitConc ==
    \E sk \in SecretScalars, scheme \in SignatureSchemes :
        /\ secret = [sk |-> sk, coefs |-> [i \in 1 .. (Threshold - 1) |-> 1]]
        /\ plain = [m |-> [i \in 1 .. MaxLen |-> 104], scheme |-> scheme, r |-> 3]
        /\ sealed = SignCrypt(sk, [i \in 1 .. MaxLen |-> 104], scheme, 3)
        /\ ciphertext = SignCrypt(sk, [i \in 1 .. MaxLen |-> 104], scheme, 3)
        /\ dkey = [key |-> SignCryptDecryptionKey(Mod(3 * sk)), from |-> "direct"]
        /\ last = Op("sign_crypt", <<>>, Returned(<<>>, <<>>))
        /\ threads = [t \in Threads |-> Idle]

Shared == <<secret, plain, sealed, ciphertext, dkey, last>>

\* A caller enters one of the operations.
Call(t) ==
    /\ threads[t].pc = "idle"
    /\ \/ \E sk \in {secret.sk, Mod(secret.sk + 1)} :
            threads' = [threads EXCEPT ![t] =
                [Idle EXCEPT !.op = "decrypt", !.pc = "match", !.arg = SecretKey(sk)]]
       \/ threads' = [threads EXCEPT ![t] =
                [Idle EXCEPT !.op = "is_valid", !.pc = "valid"]]
       \/ threads' = [threads EXCEPT ![t] =
                [Idle EXCEPT !.op = "key_decrypt", !.pc = "match"]]
       \/ \E ids \in ConcShareLists :
            threads' = [threads EXCEPT ![t] =
                [Idle EXCEPT !.op = "from_shares", !.pc = "collect", !.arg = ids]]
    /\ UNCHANGED Shared

\* SignCryptCiphertext::decrypt: let dst = match self.scheme { .. }
DecryptMatch(t) ==
    /\ threads[t].op = "decrypt" /\ threads[t].pc = "match"
    /\ threads' = [threads EXCEPT ![t].dst = SignCryptCiphertext_decrypt_dst(ciphertext.scheme),
                                  ![t].pc = "unseal"]
    /\ UNCHANGED Shared

\* SignCryptCiphertext::decrypt: unseal(self.u, &self.v, self.w, &sk.0, dst)
DecryptUnseal(t) ==
    /\ threads[t].op = "decrypt" /\ threads[t].pc = "unseal"
    /\ threads' = [threads EXCEPT
            ![t].ret = BlsSignCrypt_unseal(ciphertext.u, ciphertext.v, ciphertext.w,
                                           threads[t].arg[1], LocalDst(t)),
            ![t].pc = "done"]
    /\ UNCHANGED Shared

\* SignCryptCiphertext::is_valid: the match and the call in its arm.
IsValidCall(t) ==
    /\ threads[t].op = "is_valid" /\ threads[t].pc = "valid"
    /\ threads' = [threads EXCEPT ![t].ret = SignCryptCiphertext_is_valid(ciphertext).ret,
                                  ![t].pc = "done"]
    /\ UNCHANGED Shared

\* SignCryptDecryptionKey::decrypt: let dst = match ciphertext.scheme { .. }
KeyDecryptMatch(t) ==
    /\ threads[t].op = "key_decrypt" /\ threads[t].pc = "match"
    /\ threads' = [threads EXCEPT
            ![t].dst = SignCryptDecryptionKey_decrypt_dst(ciphertext.scheme),
            ![t].pc = "valid"]
    /\ UNCHANGED Shared

\* SignCryptDecryptionKey::decrypt: let choice = valid(..)
KeyDecryptValid(t) ==
    /\ threads[t].op = "key_decrypt" /\ threads[t].pc = "valid"
    /\ threads' = [threads EXCEPT
            ![t].choice = BlsSignCrypt_valid(ciphertext.u, ciphertext.v, ciphertext.w,
                                             LocalDst(t)),
            ![t].pc = "decrypt"]
    /\ UNCHANGED Shared

\* SignCryptDecryptionKey::decrypt: decrypt(&ciphertext.v, self.0, choice)
KeyDecryptDecrypt(t) ==
    /\ threads[t].op = "key_decrypt" /\ threads[t].pc = "decrypt"
    /\ threads' = [threads EXCEPT
            ![t].ret = BlsSignCrypt_decrypt(ciphertext.v, dkey.key[1], threads[t].choice),
            ![t].pc = "done"]
    /\ UNCHANGED Shared

\* SignCryptDecryptionKey::from_shares: shares.iter().map(|s| s.0).collect()
FromSharesCollect(t) ==
    /\ threads[t].op = "from_shares" /\ threads[t].pc = "collect"
    /\ threads' = [threads EXCEPT
            ![t].points = [i \in 1 .. Len(threads[t].arg) |->
                              SharesOf(threads[t].arg)[i][1]],
            ![t].pc = "combine"]
    /\ UNCHANGED Shared

\* SignCryptDecryptionKey::from_shares: core_combine_public_key_shares(..).map(Self)
FromSharesCombine(t) ==
    /\ threads[t].op = "from_shares" /\ threads[t].pc = "combine"
    /\ LET combined == core_combine_public_key_shares(threads[t].points)
       IN  threads' = [threads EXCEPT
               ![t].ret = IF combined.ok THEN Ok(SignCryptDecryptionKey(combined.value))
                          ELSE combined,
               ![t].pc = "done"]
    /\ UNCHANGED Shared

\* The caller takes its result and is free again.
Return(t) ==
    /\ threads[t].pc = "done"
    /\ threads' = [threads EXCEPT ![t] = Idle]
    /\ UNCHANGED Shared

\* A write to the ciphertext: only with no call in flight.
Mutate ==
    /\ ~InFlight
    /\ (SetScheme \/ TamperW \/ Restore)

NextConc ==
    \/ \E t \in Threads :
        \/ Call(t)
        \/ DecryptMatch(t)
        \/ DecryptUnseal(t)
        \/ IsValidCall(t)
        \/ KeyDecryptMatch(t)
        \/ KeyDecryptValid(t)
        \/ KeyDecryptDecrypt(t)
        \/ FromSharesCollect(t)
        \/ FromSharesCombine(t)
        \/ Return(t)
    \/ Mutate

SpecConc == InitConc /\ [][NextConc]_vars

\* ================================================================ claims
RightKey == SecretKey(secret.sk)

\* C1: a ciphertext sealed for a key and left as sealed, decrypted by
\* SignCryptCiphertext::decrypt with that key's secret key, yields a present
\* value equal to the sealed message, under every scheme.
C1_DecryptYieldsMessage ==
    (last.op = "decrypt" /\ last.arg = RightKey /\ ciphertext = sealed)
        => last.out.ret = CtSome(plain.m)

C1_Witness ==
    /\ last.op = "decrypt" /\ last.arg = RightKey /\ ciphertext = sealed
    /\ plain.scheme = "ProofOfPossession" /\ Len(plain.m) = MaxLen
    /\ last.out.ret.is_some

\* C2: SignCryptDecryptionKey::decrypt returns the plaintext exactly when the
\* ciphertext passes the validity check and the key's point is the one the
\* ciphertext was sealed to; in every other case it returns no value.
C2_KeyDecryptIffValidAndBound ==
    last.op = "key_decrypt" =>
        LET ok == /\ SignCryptCiphertext_is_valid(ciphertext).ret
                  /\ last.arg[1] = BoundPoint
        IN  /\ ok => last.out.ret = CtSome(plain.m)
            /\ ~ok => last.out.ret = CtNone

C2_Witness ==
    /\ last.op = "key_decrypt" /\ dkey.from = "direct"
    /\ last.arg[1] = BoundPoint /\ ciphertext = sealed
    /\ last.out.ret.is_some

\* C3: every list of at least Threshold shares with distinct participant
\* indices combines into a key, and decrypting with a key combined from
\* shares gives what SignCryptCiphertext::decrypt gives with the secret key.
C3_ThresholdEquivalence ==
    /\ (/\ last.op = "from_shares"
        /\ Len(last.arg) >= Threshold
        /\ \A i, j \in 1 .. Len(last.arg) : i # j => last.arg[i] # last.arg[j])
            => last.out.ret.ok
    /\ (last.op = "key_decrypt" /\ dkey.from = "shares")
            => last.out.ret = SignCryptCiphertext_decrypt(ciphertext, RightKey).ret

C3_Witness ==
    /\ last.op = "key_decrypt" /\ dkey.from = "shares"
    /\ ciphertext = sealed
    /\ last.out.ret = CtSome(plain.m)

\* C4: once the scheme tag of a sealed ciphertext is replaced by another
\* variant, is_valid is false and decrypt with the right secret key returns
\* no value.
C4_SchemeMismatchRejected ==
    ciphertext.scheme # sealed.scheme =>
        /\ last.op = "is_valid" => last.out.ret = FALSE
        /\ (last.op = "decrypt" /\ last.arg = RightKey) => last.out.ret = CtNone

C4_Witness ==
    /\ ciphertext.scheme # sealed.scheme
    /\ ciphertext.scheme = "ProofOfPossession" /\ sealed.scheme = "Basic"
    /\ last.op = "decrypt" /\ last.arg = RightKey
    /\ ~last.out.ret.is_some

\* C5: SignCryptCiphertext::decrypt always returns an optional value, and
\* with a secret key other than the sealing key, or with v or w altered after
\* sealing, that optional is empty.
C5_DecryptFailsClosed ==
    last.op = "decrypt" =>
        /\ DOMAIN last.out.ret = {"is_some", "value"}
        /\ last.out.ret.is_some \in BOOLEAN
        /\ (\/ last.arg # RightKey
            \/ ciphertext.v # sealed.v
            \/ ciphertext.w # sealed.w) => last.out.ret = CtNone

C5_Witness ==
    /\ last.op = "decrypt" /\ last.arg = RightKey
    /\ ciphertext.w # sealed.w
    /\ last.out.ret = CtNone

\* C6: from_shares returns a combination error, and no key, for a share
\* list with a repeated participant index and for one shorter than the
\* threshold.
C6_FromSharesRejects ==
    (/\ last.op = "from_shares"
     /\ \/ Len(last.arg) < Threshold
        \/ \E i, j \in 1 .. Len(last.arg) : i # j /\ last.arg[i] = last.arg[j])
        => /\ ~last.out.ret.ok
           /\ last.out.ret.err # ""
           /\ last.out.ret.value = <<>>

C6_Witness ==
    /\ last.op = "from_shares"
    /\ Len(last.arg) >= Threshold
    /\ \E i, j \in 1 .. Len(last.arg) : i # j /\ last.arg[i] = last.arg[j]
    /\ ~last.out.ret.ok

\* C7: decrypt, is_valid and the key's decrypt each pass to the primitive
\* the one DST of the ciphertext's scheme: Basic's for Basic,
\* MessageAugmentation's for MessageAugmentation, the proof-of-possession
\* signature DST for ProofOfPossession.
C7_OneDstPerScheme ==
    last.op \in {"decrypt", "is_valid", "key_decrypt"} =>
        /\ last.out.calls # <<>>
        /\ \A i \in 1 .. Len(last.out.calls) :
            last.out.calls[i].fn \in {"unseal", "valid"} =>
                /\ ciphertext.scheme = "Basic"
                    => last.out.calls[i].dst = BlsSignatureBasic_DST
                /\ ciphertext.scheme = "MessageAugmentation"
                    => last.out.calls[i].dst = BlsSignatureMessageAugmentation_DST
                /\ ciphertext.scheme = "ProofOfPossession"
                    => last.out.calls[i].dst = BlsSignaturePop_SIG_DST

C7_Witness ==
    /\ last.op = "key_decrypt"
    /\ ciphertext.scheme = "ProofOfPossession"
    /\ last.out.calls[1].dst = BlsSignaturePop_SIG_DST

\* The result a finished call would have had run alone on the shared objects.
ResultAlone(t) ==
    CASE threads[t].op = "decrypt" ->
           SignCryptCiphertext_decrypt(ciphertext, threads[t].arg).ret
      [] threads[t].op = "is_valid" ->
           SignCryptCiphertext_is_valid(ciphertext).ret
      [] threads[t].op = "key_decrypt" ->
           SignCryptDecryptionKey_decrypt(dkey.key, ciphertext).ret
      [] threads[t].op = "from_shares" ->
           SignCryptDecryptionKey_from_shares(SharesOf(threads[t].arg)).ret

FinishedAsAlone ==
    \A t \in Threads : threads[t].pc = "done" => threads[t].ret = ResultAlone(t)

\* C8: under any interleaving of the four operations, a step taken while a
\* call is in flight leaves the ciphertext, the key and the shares as they
\* were, and every finished call holds the result it gives when run alone.
C8_ConcurrentCallsAsAlone ==
    [][/\ (InFlight \/ InFlight') => UNCHANGED <<ciphertext, dkey, secret, sealed>>
       /\ FinishedAsAlone']_vars

C8_Witness ==
    /\ threads[1].pc = "done" /\ threads[1].op = "key_decrypt"
    /\ threads[2].pc = "done" /\ threads[2].op = "decrypt"
    /\ threads[1].ret.is_some /\ threads[2].ret.is_some
    /\ ciphertext.scheme = "MessageAugmentation"

\* C9: deserializing a serialized ciphertext gives a ciphertext equal to the
\* original in u, v, w and scheme; deserializing a record whose scheme tag is
\* none of the three variants' fails.
C9_SerdeRoundTrip ==
    /\ last.op = "round_trip" => last.out.ret = Ok(ciphertext)
    /\ (last.op = "deserialize" /\ last.arg[4][2] \notin {0, 1, 2})
            => ~last.out.ret.ok

C9_Witness ==
    /\ last.op = "round_trip"
    /\ ciphertext.scheme = "MessageAugmentation"
    /\ ciphertext.v # <<>>
    /\ last.out.ret.ok /\ last.out.ret.value.scheme = "MessageAugmentation"

\* C10: the key's decrypt makes one valid call and then one decrypt call
\* that receives that validity value, whatever the value is, and returns
\* what the decrypt call gave; the ciphertext's decrypt makes one unseal call
\* and returns what it gave.
C10_SameCallsWhateverValidity ==
    /\ last.op = "key_decrypt" =>
        /\ Len(last.out.calls) = 2
        /\ last.out.calls[1] = CallValid(ciphertext.u, ciphertext.v, ciphertext.w,
                                         last.out.calls[1].dst)
        /\ last.out.calls[2].fn = "decrypt"
        /\ last.out.calls[2].v = ciphertext.v
        /\ last.out.calls[2].point = last.arg[1]
        /\ last.out.calls[2].choice =
                BlsSignCrypt_valid(last.out.calls[1].u, last.out.calls[1].v,
                                   last.out.calls[1].w, last.out.calls[1].dst)
        /\ last.out.ret = BlsSignCrypt_decrypt(last.out.calls[2].v,
                                               last.out.calls[2].point,
                                               last.out.calls[2].choice)
    /\ last.op = "decrypt" =>
        /\ Len(last.out.calls) = 1
        /\ last.out.calls[1].fn = "unseal"
        /\ last.out.calls[1].sk = last.arg[1]
        /\ last.out.ret = BlsSignCrypt_unseal(last.out.calls[1].u, last.out.calls[1].v,
                                              last.out.calls[1].w, last.out.calls[1].sk,
                                              last.out.calls[1].dst)

C10_Witness ==
    /\ last.op = "key_decrypt"
    /\ Len(last.out.calls) = 2
    /\ last.out.calls[2].choice = FALSE
    /\ last.arg[1] = BoundPoint
    /\ last.out.ret = CtNone

====
